---- MODULE Spec2Model ----
(***************************************************************************)
(* The aim-prediction core of the overlay (src/aim_calculator.py): the     *)
(* ship catalog loaded at construction, the catalog resolver, the          *)
(* time-of-flight model, the lead computation and the final aim point.     *)
(*                                                                         *)
(* Python floats are modelled as decimal floating-point numbers            *)
(* [m |-> mantissa, e |-> exponent] (value m * 10^e) carrying six          *)
(* significant digits, each operation rounded to nearest; Python strings   *)
(* as sequences of one-character strings, so that str.lower() and the      *)
(* f"{ship_type}s" concatenation are computed character by character.      *)
(***************************************************************************)
EXTENDS Integers, Sequences, FiniteSets, TLC

(***************************************************************************)
(* Floating-point arithmetic                                               *)
(***************************************************************************)
Abs(n) == IF n < 0 THEN -n ELSE n

Sgn(n) == IF n < 0 THEN -1 ELSE 1

Min2(a, b) == IF a < b THEN a ELSE b

Max2(a, b) == IF a > b THEN a ELSE b

Pow10(k) ==
    CASE k = 0 -> 1
      [] k = 1 -> 10
      [] k = 2 -> 100
      [] k = 3 -> 1000
      [] k = 4 -> 10000
      [] k = 5 -> 100000
      [] k = 6 -> 1000000
      [] k = 7 -> 10000000
      [] k = 8 -> 100000000
      [] k = 9 -> 1000000000

\* number of decimal digits of n >= 0
Digits(n) ==
    CASE n < 10 -> 1
      [] n >= 10 /\ n < 100 -> 2
      [] n >= 100 /\ n < 1000 -> 3
      [] n >= 1000 /\ n < 10000 -> 4
      [] n >= 10000 /\ n < 100000 -> 5
      [] n >= 100000 /\ n < 1000000 -> 6
      [] n >= 1000000 /\ n < 10000000 -> 7
      [] n >= 10000000 /\ n < 100000000 -> 8
      [] n >= 100000000 /\ n < 1000000000 -> 9
      [] n >= 1000000000 -> 10

RECURSIVE Strip(_, _, _)
\* canonical form: no trailing zero in the mantissa, zero is 0 * 10^0
Strip(s, q, e) ==
    IF q = 0 THEN [m |-> 0, e |-> 0]
    ELSE IF q % 10 = 0 THEN Strip(s, q \div 10, e + 1)
    ELSE [m |-> s * q, e |-> e]

\* a / p rounded to nearest, ties to even (a >= 0, p > 0)
RoundDiv(a, p) ==
    IF 2 * (a % p) > p \/ (2 * (a % p) = p /\ (a \div p) % 2 = 1)
    THEN a \div p + 1
    ELSE a \div p

NormK(m, e, k) == Strip(Sgn(m), RoundDiv(Abs(m), Pow10(k)), e + k)

\* m * 10^e rounded to six significant digits
Norm(m, e) == NormK(m, e, Max2(0, Digits(Abs(m)) - 6))

F(m, e) == Norm(m, e)

FInt(n) == Norm(n, 0)

FZero == [m |-> 0, e |-> 0]

FNeg(x) == [m |-> -x.m, e |-> x.e]

\* m / 10^d truncated toward zero
ShiftDown(m, d) == IF d > 6 THEN 0 ELSE Sgn(m) * (Abs(m) \div Pow10(d))

AddShift(hi, lo, s) ==
    Norm(hi.m * Pow10(s) + ShiftDown(lo.m, hi.e - lo.e - s), hi.e - s)

\* hi.e >= lo.e: hi is shifted left as far as the integer width allows and
\* lo is aligned to it (the digits of lo below are lost)
AddAligned(hi, lo) ==
    AddShift(hi, lo, Min2(hi.e - lo.e, 9 - Digits(Abs(hi.m))))

FAdd(x, y) ==
    IF x.m = 0 THEN y
    ELSE IF y.m = 0 THEN x
    ELSE IF x.e >= y.e THEN AddAligned(x, y)
    ELSE AddAligned(y, x)

FSub(x, y) == FAdd(x, FNeg(y))

\* s * a * b * 10^e: exact when the product fits the integer width, else
\* the product without its three lowest digits
MulAbs(a, b, s, e) ==
    IF a <= 2147483647 \div b
    THEN Norm(s * a * b, e)
    ELSE Norm(s * ((a \div 1000) * b + ((a % 1000) * b) \div 1000), e + 3)

FMul(x, y) ==
    IF x.m = 0 \/ y.m = 0 THEN FZero
    ELSE MulAbs(Abs(x.m), Abs(y.m), Sgn(x.m) * Sgn(y.m), x.e + y.e)

\* long division: quotient q0 and remainder r0 so far, three digits a step
DivRem(q0, r0, b, s, e) ==
    IF Digits(q0) <= 3
    THEN Norm(s * ((q0 * 1000 + (r0 * 1000) \div b) * 1000
                   + (((r0 * 1000) % b) * 1000) \div b), e - 6)
    ELSE Norm(s * (q0 * 1000 + (r0 * 1000) \div b), e - 3)

DivScaled(a, b, s, e, j) ==
    DivRem((a * Pow10(j)) \div b, (a * Pow10(j)) % b, b, s, e - j)

\* x / y for y # 0, to at least seven significant digits before rounding
FDiv(x, y) ==
    IF x.m = 0 THEN FZero
    ELSE DivScaled(Abs(x.m), Abs(y.m), Sgn(x.m) * Sgn(y.m), x.e - y.e,
                   Max2(0, Digits(Abs(y.m)) - Digits(Abs(x.m)) + 1))

FLt(x, y) == FSub(x, y).m < 0

FLe(x, y) == FSub(x, y).m <= 0

FAbs(x) == [m |-> Abs(x.m), e |-> x.e]

\* int(x): truncation toward zero
Trunc(x) ==
    IF x.e >= 0 THEN x.m * Pow10(x.e)
    ELSE IF -x.e > 9 THEN 0
    ELSE Sgn(x.m) * (Abs(x.m) \div Pow10(-x.e))

(***************************************************************************)
(* Python values: None, str, numbers, JSON arrays and dicts                *)
(***************************************************************************)
PNone == [t |-> "none"]

PStr(s) == [t |-> "str", s |-> s]

PNum(f) == [t |-> "num", v |-> f]

\* a JSON array of n elements (only its length matters to the code)
PList(n) == [t |-> "list", n |-> n]

PDict(d) == [t |-> "dict", d |-> d]

EmptyDict == PDict(<<>>)

\* Python truth value, as tested by "if x" / "if not x"
Truthy(p) ==
    CASE p.t = "none" -> FALSE
      [] p.t = "str" -> Len(p.s) > 0
      [] p.t = "num" -> p.v.m # 0
      [] p.t = "list" -> p.n > 0
      [] p.t = "dict" -> DOMAIN p.d # {}

\* dict.get(k, default)
Get(p, k, default) == IF k \in DOMAIN p.d THEN p.d[k] ELSE default

\* the outcome of a call: a returned value or a raised exception
Ok(v) == [ok |-> TRUE, val |-> v]

Raise(x) == [ok |-> FALSE, exc |-> x]

ToLower ==
    "A" :> "a" @@ "B" :> "b" @@ "C" :> "c" @@ "D" :> "d" @@ "E" :> "e" @@
    "F" :> "f" @@ "G" :> "g" @@ "H" :> "h" @@ "I" :> "i" @@ "J" :> "j" @@
    "K" :> "k" @@ "L" :> "l" @@ "M" :> "m" @@ "N" :> "n" @@ "O" :> "o" @@
    "P" :> "p" @@ "Q" :> "q" @@ "R" :> "r" @@ "S" :> "s" @@ "T" :> "t" @@
    "U" :> "u" @@ "V" :> "v" @@ "W" :> "w" @@ "X" :> "x" @@ "Y" :> "y" @@
    "Z" :> "z"

\* str.lower()
Lower(s) ==
    [i \in DOMAIN s |-> IF s[i] \in DOMAIN ToLower THEN ToLower[s[i]] ELSE s[i]]

s_unknown == <<"u", "n", "k", "n", "o", "w", "n">>

s_destroyer == <<"d", "e", "s", "t", "r", "o", "y", "e", "r">>

s_cruiser == <<"c", "r", "u", "i", "s", "e", "r">>

s_battleship == <<"b", "a", "t", "t", "l", "e", "s", "h", "i", "p">>

k_max_speed == <<"m", "a", "x", "_", "s", "p", "e", "e", "d">>

k_acceleration ==
    <<"a", "c", "c", "e", "l", "e", "r", "a", "t", "i", "o", "n">>

k_shell_velocity ==
    <<"s", "h", "e", "l", "l", "_", "v", "e", "l", "o", "c", "i", "t", "y">>

k_distance == <<"d", "i", "s", "t", "a", "n", "c", "e">>

k_speed == <<"s", "p", "e", "e", "d">>

k_angle == <<"a", "n", "g", "l", "e">>

k_ship_type == <<"s", "h", "i", "p", "_", "t", "y", "p", "e">>

k_ship_name == <<"s", "h", "i", "p", "_", "n", "a", "m", "e">>

\* a ballistic-parameter record {"max_speed":, "acceleration":, "shell_velocity":}
Params(ms, acc, sv) ==
    PDict(k_max_speed :> PNum(ms) @@ k_acceleration :> PNum(acc)
          @@ k_shell_velocity :> PNum(sv))

(***************************************************************************)
(* AimCalculator: construction and the catalog resolver                    *)
(***************************************************************************)
VARIABLES
    data_file,               \* what the ship data path holds on disk
    pc,                      \* "new", "ready" (constructed) or "raised"
    ship_data,               \* self.ship_data
    gravity,                 \* self.gravity
    default_shell_velocity,  \* self.default_shell_velocity
    call,                    \* the last method call and its arguments
    ret,                     \* its outcome
    lead_velocity            \* the shell velocity the last lead computation
                             \* took from the resolved record (None: not reached)

\* WoWSAimbot (src/main.py): the application around the calculator
VARIABLES
    display,        \* the active display: monitor['width'], monitor['height']
    aimbot,         \* the WoWSAimbot object: self.running, self.auto_aim,
                    \* self.target_data, self.target_center, self.aim_point
    overlay,        \* the overlay window: visibility and what it was given
    cursor,         \* the pointer position (GetCursorPos / SetCursorPos)
    main,           \* where the main thread is, with the locals of the
                    \* pointer interpolation in progress
    frame_in,       \* what the frame in progress detected and read
    last_move,      \* the last SetCursorPos: the flags when it was made
    exit_requested  \* the F12 callback exit_application has been called

\* callers of one shared AimCalculator, each inside one method call
VARIABLES callers

calc_vars ==
    <<data_file, pc, ship_data, gravity, default_shell_velocity, call, ret,
      lead_velocity>>

aimbot_vars ==
    <<display, aimbot, overlay, cursor, main, frame_in, last_move,
      exit_requested>>

vars == <<calc_vars, aimbot_vars, callers>>

\* open() + json.load() under "except Exception": every failure to read or
\* parse the file is absorbed and an empty dict returned
\* a loader without the try/except: a file that cannot be opened or parsed
\* raises out of the constructor
load_ship_data_unguarded(file) ==
    IF file.st = "json" THEN Ok(file.doc)
    ELSE IF file.st = "malformed" THEN Raise("JSONDecodeError")
    ELSE Raise("OSError")

load_ship_data(file) ==
    IF file.st = "json" THEN Ok(file.doc) ELSE Ok(EmptyDict)

\* ship_type.lower() if ship_type else "unknown"
\* a normalisation that keeps the letter case of its argument
normalize_keep_case(x) == IF Truthy(x) THEN x.s ELSE s_unknown

normalize(x) == IF Truthy(x) THEN Lower(x.s) ELSE s_unknown

\* the defaults by ship type, used when the ship is not found
\* a fallback that ignores the class
default_params_any_class(st) == Params(F(30, 0), F(15, -1), F(800, 0))

default_params(st) ==
    IF st = s_destroyer THEN Params(F(35, 0), F(2, 0), F(800, 0))
    ELSE IF st = s_cruiser THEN Params(F(32, 0), F(18, -1), F(850, 0))
    ELSE IF st = s_battleship THEN Params(F(28, 0), F(13, -1), F(800, 0))
    ELSE Params(F(30, 0), F(15, -1), F(800, 0))

\* "if not ship_params": an empty or otherwise false entry counts as not found
params_or_default(ship_params, st) ==
    IF ~Truthy(ship_params) THEN Ok(default_params(st)) ELSE Ok(ship_params)

\* type_data.get(ship_name, {}): only a dict has .get
find_in_type(type_data, st, sn) ==
    IF type_data.t # "dict" THEN Raise("AttributeError")
    ELSE params_or_default(Get(type_data, sn, EmptyDict), st)

\* self.ship_data.get(f"{ship_type}s", {})
find_params(sd, st, sn) ==
    IF sd.t # "dict" THEN Raise("AttributeError")
    ELSE find_in_type(Get(sd, st \o <<"s">>, EmptyDict), st, sn)

get_ship_params(sd, ship_type, ship_name) ==
    find_params(sd, normalize(ship_type), normalize(ship_name))

(***************************************************************************)
(* Ballistics                                                              *)
(***************************************************************************)
\* math.sin(math.radians(a)) and math.cos(math.radians(a)) for the bearings
\* in use, as the floating-point library returns them: sin(180 degrees) and
\* cos(90 degrees) are tiny but not zero
SinTable ==
    (-90) :> F(-1, 0) @@ 0 :> FZero @@ 30 :> F(5, -1) @@ 45 :> F(707107, -6)
    @@ 90 :> F(1, 0) @@ 135 :> F(707107, -6) @@ 180 :> F(122465, -21)
    @@ 270 :> F(-1, 0)

CosTable ==
    (-90) :> F(612323, -22) @@ 0 :> F(1, 0) @@ 30 :> F(866025, -6)
    @@ 45 :> F(707107, -6) @@ 90 :> F(612323, -22) @@ 135 :> F(-707107, -6)
    @@ 180 :> F(-1, 0) @@ 270 :> F(-183697, -21)

sin_radians(angle_degrees) == SinTable[Trunc(angle_degrees)]

cos_radians(angle_degrees) == CosTable[Trunc(angle_degrees)]

\* t = d / v + (g * d^2) / (2 * v^2)
\* a time of flight without the gravity term
time_of_flight_flat(g, distance_m, v) == FDiv(distance_m, v)

time_of_flight(g, distance_m, v) ==
    FAdd(FDiv(distance_m, v),
         FDiv(FMul(g, FMul(distance_m, distance_m)),
              FMul(FInt(2), FMul(v, v))))

\* a time of flight that replaces a zero velocity by a small epsilon
calculate_time_of_flight_epsilon(g, distance_km, shell_velocity) ==
    IF distance_km.t # "num" \/ shell_velocity.t # "num"
    THEN Raise("TypeError")
    ELSE Ok(time_of_flight(g, FMul(distance_km.v, FInt(1000)),
                           IF shell_velocity.v.m = 0 THEN F(1, -3)
                           ELSE shell_velocity.v))

calculate_time_of_flight(g, distance_km, shell_velocity) ==
    IF distance_km.t # "num" \/ shell_velocity.t # "num"
    THEN Raise("TypeError")
    ELSE IF shell_velocity.v.m = 0 THEN Raise("ZeroDivisionError")
    ELSE Ok(time_of_flight(g, FMul(distance_km.v, FInt(1000)),
                           shell_velocity.v))

\* ship_params.get('shell_velocity', self.default_shell_velocity)
\* a lookup that requires the field: ship_params['shell_velocity']
velocity_from_required(ship_params, dsv) ==
    IF ~ship_params.ok THEN ship_params
    ELSE IF ship_params.val.t # "dict" THEN Raise("AttributeError")
    ELSE IF k_shell_velocity \in DOMAIN ship_params.val.d
         THEN Ok(ship_params.val.d[k_shell_velocity])
    ELSE Raise("KeyError")

velocity_from(ship_params, dsv) ==
    IF ~ship_params.ok THEN ship_params
    ELSE IF ship_params.val.t # "dict" THEN Raise("AttributeError")
    ELSE Ok(Get(ship_params.val, k_shell_velocity, PNum(dsv)))

\* the first lines of calculate_lead_distance: the catalog lookup and the
\* shell velocity taken from the record it returns
lead_shell_velocity(sd, dsv, target_data) ==
    velocity_from(get_ship_params(sd,
                      Get(target_data, k_ship_type, PStr(s_cruiser)),
                      Get(target_data, k_ship_name, PStr(s_unknown))),
                  dsv)

\* the x and y components of the lead; the returned tuple
\* (lead_distance_pixels, offset_x, offset_y) is a record of its components
\* the two components exchanged: x from the cosine, y from the sine
lead_offsets_exchanged(lead_distance_pixels, sin_a, cos_a) ==
    Ok([lead_distance_pixels |-> lead_distance_pixels,
        offset_x |-> FMul(lead_distance_pixels, cos_a),
        offset_y |-> FMul(FNeg(lead_distance_pixels), sin_a)])

lead_offsets(lead_distance_pixels, sin_a, cos_a) ==
    Ok([lead_distance_pixels |-> lead_distance_pixels,
        offset_x |-> FMul(lead_distance_pixels, sin_a),
        offset_y |-> FMul(FNeg(lead_distance_pixels), cos_a)])

\* a lead at a fixed scale of 100 pixels per km, whatever the distance
lead_after_tof_fixed_scale(distance_km, effective_speed, sin_a, cos_a, tof) ==
    IF ~tof.ok THEN tof
    ELSE IF distance_km.v.m = 0 THEN Raise("ZeroDivisionError")
    ELSE lead_offsets(
             FMul(FDiv(FMul(effective_speed, tof.val), FInt(1000)), FInt(100)),
             sin_a, cos_a)

\* lead in metres, then in pixels at 100 pixels per km at 10 km
lead_after_tof(distance_km, effective_speed, sin_a, cos_a, tof) ==
    IF ~tof.ok THEN tof
    ELSE IF distance_km.v.m = 0 THEN Raise("ZeroDivisionError")
    ELSE lead_offsets(
             FMul(FDiv(FMul(effective_speed, tof.val), FInt(1000)),
                  FMul(FInt(100), FDiv(FInt(10), distance_km.v))),
             sin_a, cos_a)

\* a variant that takes the magnitude of the perpendicular speed
lead_kinematics_magnitude(g, distance_km, speed_knots, sin_a, cos_a, shell_velocity) ==
    IF speed_knots.t # "num" THEN Raise("TypeError")
    ELSE lead_after_tof(distance_km,
                        FMul(FMul(speed_knots.v, F(5144, -4)), FAbs(sin_a)),
                        sin_a, cos_a,
                        calculate_time_of_flight(g, distance_km, shell_velocity))

\* an effective speed taken along the line of fire: speed_ms * cos(angle)
lead_kinematics_along(g, distance_km, speed_knots, sin_a, cos_a, shell_velocity) ==
    IF speed_knots.t # "num" THEN Raise("TypeError")
    ELSE lead_after_tof(distance_km,
                        FMul(FMul(speed_knots.v, F(5144, -4)), cos_a),
                        sin_a, cos_a,
                        calculate_time_of_flight(g, distance_km, shell_velocity))

\* speed in m/s, its component perpendicular to the line of fire, the
\* time of flight
lead_kinematics(g, distance_km, speed_knots, sin_a, cos_a, shell_velocity) ==
    IF speed_knots.t # "num" THEN Raise("TypeError")
    ELSE lead_after_tof(distance_km,
                        FMul(FMul(speed_knots.v, F(5144, -4)), sin_a),
                        sin_a, cos_a,
                        calculate_time_of_flight(g, distance_km, shell_velocity))

lead_with_velocity(g, target_data, sv) ==
    IF ~sv.ok THEN sv
    ELSE lead_kinematics(g,
             Get(target_data, k_distance, PNum(FInt(10))),
             Get(target_data, k_speed, PNum(FZero)),
             sin_radians(Get(target_data, k_angle, PNum(FInt(90))).v),
             cos_radians(Get(target_data, k_angle, PNum(FInt(90))).v),
             sv.val)

calculate_lead_distance(sd, g, dsv, target_data) ==
    lead_with_velocity(g, target_data,
                       lead_shell_velocity(sd, dsv, target_data))

\* a clamp that forgets the lower bound
clamp_above_only(a, size) == Min2(a, size)

\* max(0, min(a, size))
clamp(a, size) == Max2(0, Min2(a, size))

\* math.floor(offset) in place of int(offset)
to_pixels_floor(offset) ==
    IF offset.m < 0 /\ FLt(offset, FInt(Trunc(offset)))
    THEN Trunc(offset) - 1
    ELSE Trunc(offset)

\* int(offset) as calculate_aim_point applies it to a lead offset
to_pixels(offset) == Trunc(offset)

\* the offset applied to the target centre, kept within the screen bounds;
\* the returned tuple (aim_x, aim_y) is a record of its components
aim_from_lead(target_center, screen_size, lead) ==
    IF ~lead.ok THEN lead
    ELSE Ok([aim_x |-> clamp(target_center[1] + to_pixels(lead.val.offset_x),
                             screen_size[1]),
             aim_y |-> clamp(target_center[2] + to_pixels(lead.val.offset_y),
                             screen_size[2])])

calculate_aim_point(sd, g, dsv, target_center, target_data, screen_size) ==
    aim_from_lead(target_center, screen_size,
                  calculate_lead_distance(sd, g, dsv, target_data))

\* a drop at a fixed scale of 10 pixels per 100 m, whatever the distance
shell_drop_pixels_fixed_scale(g, distance_km, tof) ==
    IF ~tof.ok THEN tof
    ELSE IF distance_km.v.m = 0 THEN Raise("ZeroDivisionError")
    ELSE Ok(FMul(FDiv(FMul(FMul(F(5, -1), g), FMul(tof.val, tof.val)),
                      FInt(100)),
                 FInt(10)))

\* drop in metres, then in pixels at 10 pixels per 100 m at 10 km
shell_drop_pixels(g, distance_km, tof) ==
    IF ~tof.ok THEN tof
    ELSE IF distance_km.v.m = 0 THEN Raise("ZeroDivisionError")
    ELSE Ok(FMul(FDiv(FMul(FMul(F(5, -1), g), FMul(tof.val, tof.val)),
                      FInt(100)),
                 FMul(FInt(10), FDiv(FInt(10), distance_km.v))))

calculate_shell_drop(g, distance_km, shell_velocity) ==
    shell_drop_pixels(g, distance_km,
                      calculate_time_of_flight(g, distance_km, shell_velocity))

(***************************************************************************)
(* Bounded inputs                                                          *)
(***************************************************************************)
\* JSON arrays in the data file have 0..MaxListLen elements
MaxListLen == 1

\* target speeds are 0, 12.5, ... , 12.5 * MaxSpeedStep knots
MaxSpeedStep == 2

\* time-of-flight distances are 0, 0.5, ... , 0.5 * MaxHalfKm km
MaxHalfKm == 20

s_Destroyer == <<"D", "e", "s", "t", "r", "o", "y", "e", "r">>

s_CRUISER == <<"C", "R", "U", "I", "S", "E", "R">>

s_submarine == <<"s", "u", "b", "m", "a", "r", "i", "n", "e">>

s_zao == <<"z", "a", "o">>

s_Zao == <<"Z", "a", "o">>

s_kidd == <<"k", "i", "d", "d">>

s_iowa == <<"i", "o", "w", "a">>

ShipTypeArgs ==
    {PNone, PStr(<<>>), PStr(s_destroyer), PStr(s_Destroyer), PStr(s_cruiser),
     PStr(s_CRUISER), PStr(s_battleship), PStr(s_submarine)}

ShipNameArgs ==
    {PNone, PStr(<<>>), PStr(s_zao), PStr(s_Zao), PStr(s_kidd), PStr(s_iowa)}

Fields == {k_max_speed, k_acceleration, k_shell_velocity}

\* a stored record carrying the fields of S, its shell velocity being sv
Rec(S, sv) ==
    PDict([k \in S |-> IF k = k_shell_velocity THEN sv
                       ELSE IF k = k_max_speed THEN PNum(F(35, 0))
                       ELSE PNum(F(16, -1))])

\* the document {type_key: {name_key: entry}}
Cat(type_key, name_key, entry) == PDict(type_key :> PDict(name_key :> entry))

Documents ==
    {Cat(s_cruiser \o <<"s">>, s_zao, Rec(S, PNum(F(920, 0)))) : S \in SUBSET Fields}
    \cup {Cat(s_cruiser \o <<"s">>, s_zao, Rec({k_shell_velocity}, v)) :
            v \in {PNum(FZero), PNum(F(-800, 0)), PNone}}
    \cup {Cat(s_CRUISER \o <<"S">>, s_zao, Rec(Fields, PNum(F(920, 0)))),
          Cat(s_cruiser \o <<"s">>, s_Zao, Rec(Fields, PNum(F(920, 0)))),
          Cat(s_cruiser \o <<"s">>, s_zao, PNum(F(5, 0))),
          Cat(s_cruiser \o <<"s">>, s_zao, PNone),
          PDict(s_cruiser \o <<"s">> :> PNum(F(5, 0))),
          PDict(s_cruiser \o <<"s">> :> PNone),
          EmptyDict,
          PNone,
          PDict(s_destroyer \o <<"s">> :>
                    PDict(s_kidd :> Rec(Fields, PNum(F(792, 0))))
                @@ s_cruiser \o <<"s">> :>
                    PDict(s_zao :> Rec(Fields, PNum(F(920, 0))))
                @@ s_battleship \o <<"s">> :>
                    PDict(s_iowa :> Rec({k_max_speed}, PNone)))}
    \cup {PList(n) : n \in 0..MaxListLen}

DataFiles ==
    {[st |-> "missing"], [st |-> "unreadable"], [st |-> "malformed"]}
    \cup {[st |-> "json", doc |-> d] : d \in Documents}

SpeedArgs == {PNum(F(125 * k, -1)) : k \in 0..MaxSpeedStep} \cup {PNone}

AngleArgs == {PNum(FInt(a)) : a \in DOMAIN SinTable}

TofDistances == {PNum(F(5 * k, -1)) : k \in 0..MaxHalfKm}

TofVelocities == {PNum(FZero), PNum(FInt(800)), PNum(FInt(850)), PNum(FInt(900)), PNone}

Observation(d, s, a, ty, nm) ==
    PDict(k_distance :> d @@ k_speed :> s @@ k_angle :> a
          @@ k_ship_type :> ty @@ k_ship_name :> nm)

LeadTargets ==
    {Observation(d, s, a, ty, nm) :
        d \in {PNum(F(85, -1)), PNum(FInt(10)), PNum(FZero), PNone},
        s \in SpeedArgs, a \in AngleArgs,
        ty \in {PStr(s_destroyer), PStr(s_CRUISER), PStr(s_submarine)},
        nm \in {PStr(s_zao), PStr(s_kidd)}}
    \cup {EmptyDict,
          PDict(k_distance :> PNum(F(85, -1)) @@ k_speed :> PNum(FInt(25))
                @@ k_angle :> PNum(FInt(45)))}

AimTargets ==
    {Observation(d, s, a, ty, PStr(s_Zao)) :
        d \in {PNum(F(85, -1)), PNum(FInt(10))},
        s \in SpeedArgs,
        a \in {PNum(FInt(45)), PNum(FInt(90)), PNum(FInt(135)), PNum(FInt(180))},
        ty \in {PStr(s_destroyer), PStr(s_cruiser)}}

TargetCenters == {<<960, 540>>, <<1900, 10>>, <<-5, 1075>>, <<300, 700>>}

ScreenSizes == {<<1920, 1080>>, <<800, 600>>, <<0, 0>>}

(***************************************************************************)
(* The state machine                                                       *)
(***************************************************************************)
NoCall == [op |-> "none", args |-> <<>>]

\* a Python tuple (x, y) of a target centre or an aim point
PPoint(x, y) == [t |-> "tuple", x |-> x, y |-> y]

\* the main thread at position at, outside a pointer interpolation
MainAt(at) ==
    [at |-> at, exc |-> "", current_x |-> 0, current_y |-> 0, dx |-> 0,
     dy |-> 0, steps |-> 0, i |-> 0]

\* TransparentOverlay.__init__: hidden, nothing to draw
NewOverlay ==
    [visible |-> FALSE, detected_ships |-> <<>>, target_data |-> PNone,
     aim_point |-> PNone, lead_line |-> PNone, display_info |-> EmptyDict]

\* what the text recogniser found in the target-info area: the number
\* distance_pattern and speed_pattern match (None: no match) and the lines
NoText == [km |-> PNone, kn |-> PNone, lines |-> <<>>]

NoFrame == [ships |-> <<>>, text |-> NoText]

NoMove == [made |-> FALSE, auto_aim |-> FALSE, aimed |-> FALSE]

\* the attributes WoWSAimbot.__init__ sets
NewAimbot ==
    [running |-> FALSE, auto_aim |-> FALSE, target_data |-> PNone,
     target_center |-> PNone, aim_point |-> PNone]

\* before WoWSAimbot.__init__: no application around the calculator
NoAimbot ==
    /\ aimbot = NewAimbot
    /\ overlay = NewOverlay
    /\ main = MainAt("new")
    /\ frame_in = NoFrame
    /\ last_move = NoMove
    /\ exit_requested = FALSE

\* how many callers share one calculator
MaxCallers == 2

Callers == 1..MaxCallers

\* a caller outside any call
IdleCaller ==
    [at |-> "idle", op |-> "none", args |-> <<>>, sv |-> Ok(PNone),
     tof |-> Ok(PNone), ret |-> Ok(PNone)]

CalculatorInit ==
    /\ pc = "new"
    /\ ship_data = PNone
    /\ gravity = FZero
    /\ default_shell_velocity = FZero
    /\ call = NoCall
    /\ ret = Ok(PNone)
    /\ lead_velocity = PNone

Init ==
    /\ data_file \in DataFiles
    /\ CalculatorInit
    /\ NoAimbot
    /\ display = [width |-> 1920, height |-> 1080]
    /\ cursor = [x |-> 960, y |-> 540]
    /\ callers = [c \in Callers |-> IdleCaller]

\* AimCalculator.__init__
Construct ==
    /\ pc = "new"
    /\ LET loaded == load_ship_data(data_file)
       IN  IF loaded.ok
           THEN /\ ship_data' = loaded.val
                /\ gravity' = F(98, -1)
                /\ default_shell_velocity' = FInt(800)
                /\ pc' = "ready"
           ELSE /\ pc' = "raised"
                /\ UNCHANGED <<ship_data, gravity, default_shell_velocity>>
    /\ UNCHANGED <<data_file, call, ret, lead_velocity>>
    /\ UNCHANGED <<aimbot_vars, callers>>

GetShipParams ==
    /\ pc = "ready"
    /\ call = NoCall
    /\ \E ty \in ShipTypeArgs, nm \in ShipNameArgs :
        /\ call' = [op |-> "get_ship_params", args |-> <<ty, nm>>]
        /\ ret' = get_ship_params(ship_data, ty, nm)
    /\ UNCHANGED <<data_file, pc, ship_data, gravity, default_shell_velocity,
                   lead_velocity>>
    /\ UNCHANGED <<aimbot_vars, callers>>

CalculateTimeOfFlight ==
    /\ pc = "ready"
    /\ call = NoCall
    /\ \E d \in TofDistances, v \in TofVelocities :
        /\ call' = [op |-> "calculate_time_of_flight", args |-> <<d, v>>]
        /\ ret' = calculate_time_of_flight(gravity, d, v)
    /\ UNCHANGED <<data_file, pc, ship_data, gravity, default_shell_velocity,
                   lead_velocity>>
    /\ UNCHANGED <<aimbot_vars, callers>>

\* the local shell_velocity of a lead computation: None when the lookup raised
velocity_of(sv) == IF sv.ok THEN sv.val ELSE PNone

CalculateLeadDistance ==
    /\ pc = "ready"
    /\ call = NoCall
    /\ \E td \in LeadTargets :
        /\ call' = [op |-> "calculate_lead_distance", args |-> <<td>>]
        /\ ret' = calculate_lead_distance(ship_data, gravity,
                                          default_shell_velocity, td)
        /\ lead_velocity' =
            velocity_of(lead_shell_velocity(ship_data, default_shell_velocity, td))
    /\ UNCHANGED <<data_file, pc, ship_data, gravity, default_shell_velocity>>
    /\ UNCHANGED <<aimbot_vars, callers>>

CalculateAimPoint ==
    /\ pc = "ready"
    /\ call = NoCall
    /\ \E tc \in TargetCenters, td \in AimTargets, sz \in ScreenSizes :
        /\ call' = [op |-> "calculate_aim_point", args |-> <<tc, td, sz>>]
        /\ ret' = calculate_aim_point(ship_data, gravity,
                                      default_shell_velocity, tc, td, sz)
        /\ lead_velocity' =
            velocity_of(lead_shell_velocity(ship_data, default_shell_velocity, td))
    /\ UNCHANGED <<data_file, pc, ship_data, gravity, default_shell_velocity>>
    /\ UNCHANGED <<aimbot_vars, callers>>

CalculateShellDrop ==
    /\ pc = "ready"
    /\ call = NoCall
    /\ \E d \in TofDistances, v \in TofVelocities :
        /\ call' = [op |-> "calculate_shell_drop", args |-> <<d, v>>]
        /\ ret' = calculate_shell_drop(gravity, d, v)
    /\ UNCHANGED <<data_file, pc, ship_data, gravity, default_shell_velocity,
                   lead_velocity>>
    /\ UNCHANGED <<aimbot_vars, callers>>

\* the caller takes the result; the calculator keeps nothing of the call
Return ==
    /\ call # NoCall
    /\ call' = NoCall
    /\ ret' = Ok(PNone)
    /\ lead_velocity' = PNone
    /\ UNCHANGED <<data_file, pc, ship_data, gravity, default_shell_velocity>>
    /\ UNCHANGED <<aimbot_vars, callers>>

Next ==
    \/ Construct
    \/ GetShipParams
    \/ CalculateTimeOfFlight
    \/ CalculateLeadDistance
    \/ CalculateAimPoint
    \/ CalculateShellDrop
    \/ Return

Spec == Init /\ [][Next]_vars

(***************************************************************************)
(* The application (src/main.py): one main thread running the frame loop,  *)
(* and the hotkey callbacks of the keyboard library's thread               *)
(***************************************************************************)

s_carrier == <<"c", "a", "r", "r", "i", "e", "r">>

k_ship_info == <<"s", "h", "i", "p", "_", "i", "n", "f", "o">>

k_type == <<"t", "y", "p", "e">>

k_name == <<"n", "a", "m", "e">>

\* sub in s, for two strings
Contains(s, sub) ==
    \E i \in 1..(Len(s) - Len(sub) + 1) : SubSeq(s, i, i + Len(sub) - 1) = sub

\* str.strip(): without the blanks at both ends
strip(s) ==
    IF \A i \in DOMAIN s : s[i] = " " THEN <<>>
    ELSE SubSeq(s,
                CHOOSE i \in DOMAIN s :
                    s[i] # " " /\ \A j \in 1..(i - 1) : s[j] = " ",
                CHOOSE i \in DOMAIN s :
                    s[i] # " " /\ \A j \in (i + 1)..Len(s) : s[j] = " ")

\* the ship-type words extract_target_info looks for, in its order
ShipTypeWords == <<s_destroyer, s_cruiser, s_battleship, s_carrier>>

\* any(ship_type in line.lower() for ship_type in [...])
names_a_type(line) ==
    \E k \in DOMAIN ShipTypeWords : Contains(Lower(line), ShipTypeWords[k])

\* next(t for t in [...] if t in line.lower()): the first word of the list
\* the line contains
first_type(line) ==
    ShipTypeWords[CHOOSE k \in DOMAIN ShipTypeWords :
                      /\ Contains(Lower(line), ShipTypeWords[k])
                      /\ \A j \in 1..(k - 1) :
                            ~Contains(Lower(line), ShipTypeWords[j])]

\* the loop over the lines of the text: each line naming a type overwrites
\* ship_info["type"] and ship_info["name"]
RECURSIVE ship_info_from(_, _, _)
ship_info_from(lines, i, ship_info) ==
    IF i > Len(lines) THEN ship_info
    ELSE IF names_a_type(lines[i])
    THEN ship_info_from(lines, i + 1,
                        k_type :> PStr(first_type(lines[i]))
                        @@ k_name :> PStr(strip(lines[i])))
    ELSE ship_info_from(lines, i + 1, ship_info)

\* OCRReader.extract_target_info: "distance" and "speed" are always present,
\* None when their pattern found nothing
extract_target_info(text) ==
    PDict(k_distance :> text.km
          @@ k_speed :> text.kn
          @@ k_ship_info :> PDict(ship_info_from(text.lines, 1, <<>>)))

\* process_frame's geometry of the aim area around the screen centre
center_of(size) == size \div 2

capture_size(screen_height) == (4 * screen_height) \div 10

capture_offset(size, screen_height) ==
    center_of(size) - capture_size(screen_height) \div 2

\* a detection moved from aim-area to screen coordinates
adjusted_ship(ship, x_offset, y_offset) ==
    [bbox |-> <<ship.bbox[1] + x_offset, ship.bbox[2] + y_offset,
                ship.bbox[3] + x_offset, ship.bbox[4] + y_offset>>]

adjusted_ships(ships, d) ==
    [k \in DOMAIN ships |->
        adjusted_ship(ships[k],
                      capture_offset(d.width, d.height),
                      capture_offset(d.height, d.height))]

ship_center(ship) ==
    PPoint((ship.bbox[1] + ship.bbox[3]) \div 2,
           (ship.bbox[2] + ship.bbox[4]) \div 2)

\* the square of a ship centre's distance to the screen centre; distances
\* compare as their squares do
distance2(c, center_x, center_y) ==
    (c.x - center_x) * (c.x - center_x) + (c.y - center_y) * (c.y - center_y)

\* float('inf') as a squared distance
Inf == -1

\* a variant that starts the search from the previous target's distance
min_distance_from_previous(previous, center_x, center_y) ==
    IF previous = PNone THEN Inf ELSE distance2(previous, center_x, center_y)

\* min_distance before the loop over the ships
min_distance_start(previous, center_x, center_y) == Inf

\* a variant of the loop that also takes a ship as close as the closest so far
RECURSIVE closest_center_last_wins(_, _, _, _, _, _)
closest_center_last_wins(ships, i, min_distance, center, center_x, center_y) ==
    IF i > Len(ships) THEN center
    ELSE IF \/ min_distance = Inf
            \/ distance2(ship_center(ships[i]), center_x, center_y) <= min_distance
    THEN closest_center_last_wins(ships, i + 1,
                        distance2(ship_center(ships[i]), center_x, center_y),
                        ship_center(ships[i]), center_x, center_y)
    ELSE closest_center_last_wins(ships, i + 1, min_distance, center,
                                  center_x, center_y)

\* the loop over adjusted_ships: self.target_center is assigned whenever a
\* ship is strictly closer than every ship before it
RECURSIVE closest_center(_, _, _, _, _, _)
closest_center(ships, i, min_distance, center, center_x, center_y) ==
    IF i > Len(ships) THEN center
    ELSE IF \/ min_distance = Inf
            \/ distance2(ship_center(ships[i]), center_x, center_y) < min_distance
    THEN closest_center(ships, i + 1,
                        distance2(ship_center(ships[i]), center_x, center_y),
                        ship_center(ships[i]), center_x, center_y)
    ELSE closest_center(ships, i + 1, min_distance, center, center_x, center_y)

\* self.target_center after the loop, from its value before the frame
target_center_after(previous, ships, d) ==
    closest_center(adjusted_ships(ships, d), 1,
                   min_distance_start(previous, center_of(d.width),
                                      center_of(d.height)),
                   previous, center_of(d.width), center_of(d.height))

\* np.degrees(np.arctan2(dx, dy)) for a displacement along an axis or a
\* diagonal
arctan2_degrees(dx, dy) ==
    CASE dx = 0 /\ dy >= 0 -> 0
      [] dx = 0 /\ dy < 0 -> 180
      [] dx > 0 /\ dy = 0 -> 90
      [] dx < 0 /\ dy = 0 -> -90
      [] dx > 0 /\ dy = dx -> 45
      [] dx > 0 /\ dy = -dx -> 135
      [] dx < 0 /\ dy = dx -> -135
      [] dx < 0 /\ dy = -dx -> -45

\* self.target_data['angle'] = angle
with_angle(ocr_info, center, d) ==
    PDict(k_angle :> PNum(FInt(arctan2_degrees(center.x - center_of(d.width),
                                                center.y - center_of(d.height))))
          @@ ocr_info.d)

\* calculate_aim_point(self.target_center, self.target_data): no screen size
\* is passed, so the parameter's default (1920, 1080) applies
frame_aim_point(sd, g, dsv, center, data) ==
    calculate_aim_point(sd, g, dsv, <<center.x, center.y>>, data, <<1920, 1080>>)

\* the tuple calculate_aim_point returned
AsPoint(aim) == PPoint(aim.aim_x, aim.aim_y)

\* update_display_info: the Mode and Status lines, and the distance and
\* speed lines, which format a number
display_info(a) ==
    IF Truthy(a.target_data)
       /\ \/ Get(a.target_data, k_distance, PNum(FZero)).t # "num"
          \/ Get(a.target_data, k_speed, PNum(FZero)).t # "num"
    THEN Raise("TypeError")
    ELSE Ok([t |-> "info", auto_aim |-> a.auto_aim, running |-> a.running,
             distance |-> IF Truthy(a.target_data)
                          THEN Get(a.target_data, k_distance, PNone) ELSE PNone,
             speed |-> IF Truthy(a.target_data)
                       THEN Get(a.target_data, k_speed, PNone) ELSE PNone])

\* the integer part of a square root
ISqrt(n) == CHOOSE k \in 0..Min2(n, 200) : k * k <= n /\ (k + 1) * (k + 1) > n

\* int(x) of the quotient n / d: rounding toward zero
TruncDiv(n, d) == IF n >= 0 THEN n \div d ELSE -((-n) \div d)

\* 5 < distance < 200 for distance = (dx**2 + dy**2)**0.5
significant(dx, dy) == 25 < dx * dx + dy * dy /\ dx * dx + dy * dy < 40000

\* steps = max(1, int(distance / 10))
steps_for(dx, dy) == Max2(1, ISqrt(dx * dx + dy * dy) \div 10)

\* int(current + d * i / steps)
step_position(current, d, i, steps) == TruncDiv(current * steps + d * i, steps)

\* the display resolutions the application is run on
Displays == {[width |-> 1920, height |-> 1080], [width |-> 1280, height |-> 720]}

\* a detection of the aim area whose box is centred (ddx, ddy) away from the
\* area's centre
Ship(d, ddx, ddy) ==
    [bbox |-> <<capture_size(d.height) \div 2 + ddx - 10,
                capture_size(d.height) \div 2 + ddy - 10,
                capture_size(d.height) \div 2 + ddx + 10,
                capture_size(d.height) \div 2 + ddy + 10>>]

\* what YOLODetector.detect_ships returns for a frame: no ship, one ship on
\* an axis or a diagonal, or two ships (equally far; the second closer)
Detections(d) ==
    {<<>>}
    \cup {<<Ship(d, p[1], p[2])>> :
            p \in {<<40, 0>>, <<0, 40>>, <<30, -30>>}}
    \cup {<<Ship(d, 40, 0), Ship(d, 0, 40)>>,
          <<Ship(d, 30, 30), Ship(d, 0, -40)>>}

line_kidd ==
    <<" ", "K", "i", "d", "d", " ">> \o s_Destroyer \o <<" ">>

\* what the text recogniser read in the target-info area
Texts ==
    {[km |-> PNum(F(85, -1)), kn |-> PNum(FInt(25)), lines |-> <<line_kidd>>],
     [km |-> PNum(F(85, -1)), kn |-> PNum(FZero), lines |-> <<line_kidd>>],
     [km |-> PNone, kn |-> PNum(FInt(25)), lines |-> <<line_kidd>>],
     [km |-> PNum(FInt(10)), kn |-> PNone, lines |-> <<>>]}

\* ship_data.json next to the application: absent, or a catalog
AppDataFiles ==
    {[st |-> "missing"],
     [st |-> "json",
      doc |-> Cat(s_destroyer \o <<"s">>, s_kidd, Rec(Fields, PNum(F(792, 0))))]}

InitApp ==
    /\ data_file \in AppDataFiles
    /\ CalculatorInit
    /\ NoAimbot
    /\ display \in Displays
    /\ cursor = [x |-> center_of(display.width), y |-> center_of(display.height)]
    /\ callers = [c \in Callers |-> IdleCaller]

\* WoWSAimbot.__init__: the calculator is constructed with the default path,
\* the state attributes are set and the hotkeys registered
BuildAimbot ==
    /\ main.at = "new"
    /\ pc = "new"
    /\ ship_data' = load_ship_data(data_file).val
    /\ gravity' = F(98, -1)
    /\ default_shell_velocity' = FInt(800)
    /\ pc' = "ready"
    /\ aimbot' = NewAimbot
    /\ main' = MainAt("built")
    /\ UNCHANGED <<data_file, call, ret, lead_velocity>>
    /\ UNCHANGED <<display, overlay, cursor, frame_in, last_move, callers,
                   exit_requested>>

\* run(), up to the first test of the loop condition
Run ==
    /\ main.at = "built"
    /\ aimbot' = [aimbot EXCEPT !.running = TRUE]
    /\ overlay' = [overlay EXCEPT !.visible = TRUE]
    /\ main' = MainAt("loop")
    /\ UNCHANGED <<calc_vars, display, cursor, frame_in, last_move, callers,
                   exit_requested>>

\* process_frame's else branch: no ship detected
FrameWithoutTarget ==
    /\ frame_in' = NoFrame
    /\ aimbot' = [aimbot EXCEPT !.target_data = PNone, !.aim_point = PNone,
                                !.target_center = PNone]
    /\ overlay' = [overlay EXCEPT !.detected_ships = <<>>,
                                  !.target_data = PNone,
                                  !.aim_point = PNone,
                                  !.lead_line = [t |-> "tuple", start |-> PNone,
                                                 end |-> PNone]]
    /\ main' = MainAt("frame_end")
    /\ UNCHANGED <<cursor, last_move, lead_velocity>>

\* calculate_aim_point raised: the frame ends at line 220 with the target
\* centre and data assigned, the aim point and the overlay's target left
FrameRaised(ships, center, data, exc) ==
    /\ aimbot' = [aimbot EXCEPT !.target_center = center, !.target_data = data]
    /\ overlay' = [overlay EXCEPT !.detected_ships = adjusted_ships(ships, display)]
    /\ main' = [MainAt("raised") EXCEPT !.exc = exc]
    /\ UNCHANGED <<cursor, last_move>>

\* move_mouse_to_aim_point up to its first SetCursorPos and the sleep after
\* it: the flags are tested once, before the loop
MoveStart(aim, dx, dy) ==
    IF aimbot.auto_aim /\ significant(dx, dy)
    THEN /\ cursor' = [x |-> step_position(cursor.x, dx, 1, steps_for(dx, dy)),
                       y |-> step_position(cursor.y, dy, 1, steps_for(dx, dy))]
         /\ last_move' = [made |-> TRUE, auto_aim |-> aimbot.auto_aim,
                          aimed |-> TRUE]
         /\ main' = IF steps_for(dx, dy) = 1 THEN MainAt("frame_end")
                    ELSE [at |-> "moving", exc |-> "",
                          current_x |-> cursor.x, current_y |-> cursor.y,
                          dx |-> dx, dy |-> dy, steps |-> steps_for(dx, dy),
                          i |-> 2]
    ELSE /\ main' = MainAt("frame_end")
         /\ UNCHANGED <<cursor, last_move>>

\* calculate_aim_point returned: the aim point is stored, the overlay is
\* given the target, and the pointer mover is called
FrameAimed(ships, center, data, aim) ==
    /\ aimbot' = [aimbot EXCEPT !.target_center = center, !.target_data = data,
                                !.aim_point = aim]
    /\ overlay' = [overlay EXCEPT !.detected_ships = adjusted_ships(ships, display),
                                  !.target_data = data,
                                  !.aim_point = aim,
                                  !.lead_line = [t |-> "tuple", start |-> center,
                                                 end |-> aim]]
    /\ MoveStart(aim, aim.x - cursor.x, aim.y - cursor.y)

FrameWithData(ships, center, data, aim) ==
    /\ lead_velocity' =
        velocity_of(lead_shell_velocity(ship_data, default_shell_velocity, data))
    /\ IF aim.ok THEN FrameAimed(ships, center, data, AsPoint(aim.val))
       ELSE FrameRaised(ships, center, data, aim.exc)

FrameWithCenter(ships, center, data) ==
    FrameWithData(ships, center, data,
                  frame_aim_point(ship_data, gravity, default_shell_velocity,
                                  center, data))

\* process_frame with ships detected: the closest ship, the text of the
\* target-info area, the bearing, the aim point
FrameWithTarget(ships, text, center) ==
    /\ frame_in' = [ships |-> ships, text |-> text]
    /\ FrameWithCenter(ships, center,
                       with_angle(extract_target_info(text), center, display))

\* process_frame, from the capture to the pointer mover's first step
ProcessFrame ==
    /\ main.at = "loop"
    /\ \E ships \in Detections(display) :
        IF ships = <<>> THEN FrameWithoutTarget
        ELSE \E text \in Texts :
                FrameWithTarget(ships, text,
                                target_center_after(aimbot.target_center,
                                                    ships, display))
    /\ UNCHANGED <<data_file, pc, ship_data, gravity, default_shell_velocity,
                   call, ret, display, callers,
                   exit_requested>>

\* one more iteration of the loop in move_mouse_to_aim_point: SetCursorPos,
\* then the sleep; neither auto_aim nor aim_point is read again
MoveStep ==
    /\ main.at = "moving"
    /\ cursor' = [x |-> step_position(main.current_x, main.dx, main.i, main.steps),
                  y |-> step_position(main.current_y, main.dy, main.i, main.steps)]
    /\ last_move' = [made |-> TRUE, auto_aim |-> aimbot.auto_aim,
                     aimed |-> aimbot.aim_point # PNone]
    /\ main' = IF main.i = main.steps THEN MainAt("frame_end")
               ELSE [main EXCEPT !.i = main.i + 1]
    /\ UNCHANGED <<calc_vars, display, aimbot, overlay, frame_in, callers,
                   exit_requested>>

\* the end of process_frame: calculate_fps and update_display_info
FrameEnd ==
    /\ main.at = "frame_end"
    /\ IF display_info(aimbot).ok
       THEN /\ overlay' = [overlay EXCEPT !.display_info = display_info(aimbot).val]
            /\ main' = MainAt("sleep")
       ELSE /\ main' = [MainAt("raised") EXCEPT !.exc = display_info(aimbot).exc]
            /\ UNCHANGED overlay
    /\ UNCHANGED <<calc_vars, display, aimbot, cursor, frame_in, last_move, callers,
                   exit_requested>>

\* a variant of the loop that only the key polled after the sleep ends
loop_continues_until_key(pressed, is_running) == ~pressed

\* whether another frame follows: no break on keyboard.is_pressed('f12'),
\* and the loop condition self.running holds
loop_continues(pressed, is_running) == ~pressed /\ is_running

\* after the sleep: keyboard.is_pressed('f12') breaks the loop, otherwise
\* the loop condition self.running is tested
LoopTest ==
    /\ main.at = "sleep"
    /\ \E pressed \in BOOLEAN :
        main' = IF loop_continues(pressed, aimbot.running) THEN MainAt("loop")
                ELSE MainAt("leaving")
    /\ UNCHANGED <<calc_vars, display, aimbot, overlay, cursor, frame_in,
                   last_move, callers,
                   exit_requested>>

\* run()'s except and finally: the loop is over, the overlay is hidden
Finally ==
    /\ main.at \in {"raised", "leaving"}
    /\ overlay' = [overlay EXCEPT !.visible = FALSE]
    /\ main' = [main EXCEPT !.at = "returned"]
    /\ UNCHANGED <<calc_vars, display, aimbot, cursor, frame_in, last_move, callers,
                   exit_requested>>

\* F8, in the hotkey thread
ToggleOverlay ==
    /\ main.at # "new"
    /\ overlay' = [overlay EXCEPT !.visible = ~overlay.visible]
    /\ UNCHANGED <<calc_vars, display, aimbot, cursor, main, frame_in,
                   last_move, callers,
                   exit_requested>>

\* F9, in the hotkey thread: the flag is flipped and the info refreshed
ToggleAutoAim ==
    /\ main.at # "new"
    /\ aimbot' = [aimbot EXCEPT !.auto_aim = ~aimbot.auto_aim]
    /\ overlay' = IF display_info(aimbot').ok
                  THEN [overlay EXCEPT !.display_info = display_info(aimbot').val]
                  ELSE overlay
    /\ UNCHANGED <<calc_vars, display, cursor, main, frame_in, last_move, callers,
                   exit_requested>>

\* F12, in the hotkey thread
ExitApplication ==
    /\ main.at # "new"
    /\ aimbot' = [aimbot EXCEPT !.running = FALSE]
    /\ exit_requested' = TRUE
    /\ UNCHANGED <<calc_vars, display, overlay, cursor, main, frame_in,
                   last_move, callers>>

NextApp ==
    \/ BuildAimbot
    \/ Run
    \/ ProcessFrame
    \/ MoveStep
    \/ FrameEnd
    \/ LoopTest
    \/ Finally
    \/ ToggleOverlay
    \/ ToggleAutoAim
    \/ ExitApplication

SpecApp == InitApp /\ [][NextApp]_vars

\* the steps of the main thread, which runs as long as it has something to do
MainThread ==
    \/ BuildAimbot
    \/ Run
    \/ ProcessFrame
    \/ MoveStep
    \/ FrameEnd
    \/ LoopTest
    \/ Finally

\* the application with a main thread that is never stopped for ever; the
\* hotkey callbacks run only when a key is pressed
InitAppLive ==
    /\ InitApp
    /\ data_file = [st |-> "missing"]
    /\ display = [width |-> 1920, height |-> 1080]

SpecAppLive == InitAppLive /\ [][NextApp]_vars /\ WF_vars(MainThread)

(***************************************************************************)
(* Concurrent callers of one AimCalculator: each method is a sequence of   *)
(* steps, one per read of the calculator's attributes, and the steps of    *)
(* different callers interleave                                            *)
(***************************************************************************)

\* a variant of the lookup that stores the fallback it returns in the catalog
ship_data_caching_fallback(sd, ship_type, ship_name) ==
    IF get_ship_params(sd, ship_type, ship_name)
         = Ok(default_params(normalize(ship_type)))
    THEN PDict((normalize(ship_type) \o <<"s">>) :>
                    PDict(normalize(ship_name) :>
                              default_params(normalize(ship_type)))
               @@ sd.d)
    ELSE sd

\* self.ship_data after get_ship_params: the lookup reads with dict.get and
\* writes nothing
ship_data_after_lookup(sd, ship_type, ship_name) == sd

\* the calls the callers make
ConcCalls ==
    {[op |-> "get_ship_params", args |-> <<PStr(s_destroyer), PStr(s_kidd)>>],
     [op |-> "get_ship_params", args |-> <<PStr(s_cruiser), PNone>>],
     [op |-> "calculate_time_of_flight",
      args |-> <<PNum(F(85, -1)), PNum(FInt(800))>>],
     [op |-> "calculate_time_of_flight", args |-> <<PNum(FInt(10)), PNum(FZero)>>],
     [op |-> "calculate_lead_distance",
      args |-> <<Observation(PNum(F(85, -1)), PNum(FInt(25)), PNum(FInt(45)),
                             PStr(s_destroyer), PStr(s_kidd))>>],
     [op |-> "calculate_aim_point",
      args |-> <<<<960, 540>>,
                 Observation(PNum(FInt(10)), PNum(FInt(25)), PNum(FInt(90)),
                             PStr(s_battleship), PStr(s_iowa)),
                 <<1920, 1080>>>>],
     [op |-> "calculate_shell_drop",
      args |-> <<PNum(F(85, -1)), PNum(FInt(800))>>]}

\* the target_data argument of a lead or aim-point call
target_data_of(c) ==
    IF c.op = "calculate_aim_point" THEN c.args[2] ELSE c.args[1]

ConcDataFiles ==
    {[st |-> "missing"],
     [st |-> "json",
      doc |-> Cat(s_destroyer \o <<"s">>, s_kidd, Rec(Fields, PNum(F(792, 0))))]}

InitConc ==
    /\ data_file \in ConcDataFiles
    /\ CalculatorInit
    /\ NoAimbot
    /\ display = [width |-> 1920, height |-> 1080]
    /\ cursor = [x |-> 960, y |-> 540]
    /\ callers = [c \in Callers |-> IdleCaller]

\* AimCalculator.__init__, before the instance is shared
ConcConstruct ==
    /\ pc = "new"
    /\ ship_data' = load_ship_data(data_file).val
    /\ gravity' = F(98, -1)
    /\ default_shell_velocity' = FInt(800)
    /\ pc' = "ready"
    /\ UNCHANGED <<data_file, call, ret, lead_velocity, aimbot_vars, callers>>

\* a caller enters a method
ConcCall(c) ==
    /\ pc = "ready"
    /\ callers[c].at = "idle"
    /\ \E m \in ConcCalls :
        callers' = [callers EXCEPT ![c] =
            [IdleCaller EXCEPT
                !.op = m.op, !.args = m.args,
                !.at = IF m.op \in {"calculate_time_of_flight",
                                    "calculate_shell_drop"}
                       THEN "flight" ELSE "lookup"]]
    /\ UNCHANGED <<calc_vars, aimbot_vars>>

\* get_ship_params itself, or the first lines of calculate_lead_distance:
\* self.ship_data and self.default_shell_velocity are read
LookupBy(c, sv) ==
    IF callers[c].op = "get_ship_params"
    THEN /\ callers' = [callers EXCEPT
                ![c].ret = get_ship_params(ship_data, callers[c].args[1],
                                           callers[c].args[2]),
                ![c].at = "done"]
         /\ ship_data' = ship_data_after_lookup(ship_data, callers[c].args[1],
                                                callers[c].args[2])
    ELSE /\ callers' = [callers EXCEPT
                ![c].sv = sv,
                ![c].ret = IF sv.ok THEN callers[c].ret ELSE sv,
                ![c].at = IF sv.ok THEN "flight" ELSE "done"]
         /\ ship_data' =
              ship_data_after_lookup(
                  ship_data,
                  Get(target_data_of(callers[c]), k_ship_type, PStr(s_cruiser)),
                  Get(target_data_of(callers[c]), k_ship_name, PStr(s_unknown)))

ConcLookup(c) ==
    /\ callers[c].at = "lookup"
    /\ LookupBy(c, lead_shell_velocity(ship_data, default_shell_velocity,
                                       target_data_of(callers[c])))
    /\ UNCHANGED <<data_file, pc, gravity, default_shell_velocity, call, ret,
                   lead_velocity, aimbot_vars>>

\* the time of flight, where self.gravity is read, and what calculate_lead_
\* distance and calculate_aim_point compute from it
FlightBy(c, a) ==
    CASE c.op = "calculate_time_of_flight" ->
            [c EXCEPT !.ret = calculate_time_of_flight(gravity, a[1], a[2]),
                      !.at = "done"]
      [] c.op = "calculate_shell_drop" ->
            [c EXCEPT !.tof = calculate_time_of_flight(gravity, a[1], a[2]),
                      !.at = "drop"]
      [] c.op = "calculate_lead_distance" ->
            [c EXCEPT !.ret = lead_with_velocity(gravity, a[1], c.sv),
                      !.at = "done"]
      [] c.op = "calculate_aim_point" ->
            [c EXCEPT !.ret = aim_from_lead(a[1], a[3],
                                            lead_with_velocity(gravity, a[2], c.sv)),
                      !.at = "done"]

ConcFlight(c) ==
    /\ callers[c].at = "flight"
    /\ callers' = [callers EXCEPT ![c] = FlightBy(callers[c], callers[c].args)]
    /\ UNCHANGED <<calc_vars, aimbot_vars>>

\* calculate_shell_drop after its time of flight: self.gravity is read again
ConcDrop(c) ==
    /\ callers[c].at = "drop"
    /\ callers' = [callers EXCEPT
            ![c].ret = shell_drop_pixels(gravity, callers[c].args[1],
                                         callers[c].tof),
            ![c].at = "done"]
    /\ UNCHANGED <<calc_vars, aimbot_vars>>

\* the caller takes its result
ConcReturn(c) ==
    /\ callers[c].at = "done"
    /\ callers' = [callers EXCEPT ![c] = IdleCaller]
    /\ UNCHANGED <<calc_vars, aimbot_vars>>

NextConc ==
    \/ ConcConstruct
    \/ \E c \in Callers : ConcCall(c)
    \/ \E c \in Callers : ConcLookup(c)
    \/ \E c \in Callers : ConcFlight(c)
    \/ \E c \in Callers : ConcDrop(c)
    \/ \E c \in Callers : ConcReturn(c)

SpecConc == InitConc /\ [][NextConc]_vars

(***************************************************************************)
(* Properties                                                              *)
(***************************************************************************)
\* the ship class and ship name a query names, read off the query itself
ClassOf(ty) ==
    CASE ty \in {PStr(s_destroyer), PStr(s_Destroyer)} -> s_destroyer
      [] ty \in {PStr(s_cruiser), PStr(s_CRUISER)} -> s_cruiser
      [] ty = PStr(s_battleship) -> s_battleship
      [] ty = PStr(s_submarine) -> s_submarine
      [] OTHER -> s_unknown

NameOf(nm) ==
    CASE nm \in {PStr(s_zao), PStr(s_Zao)} -> s_zao
      [] nm = PStr(s_kidd) -> s_kidd
      [] nm = PStr(s_iowa) -> s_iowa
      [] OTHER -> s_unknown

\* the documented fallback records
Fallback(cls) ==
    CASE cls = s_destroyer -> Params(FInt(35), FInt(2), FInt(800))
      [] cls = s_cruiser -> Params(FInt(32), F(18, -1), FInt(850))
      [] cls = s_battleship -> Params(FInt(28), F(13, -1), FInt(800))
      [] OTHER -> Params(FInt(30), F(15, -1), FInt(800))

\* the loaded document is a catalog as far as class cls goes: a mapping
\* whose value for the class, if any, is a mapping
CatalogShaped(cls) ==
    /\ ship_data.t = "dict"
    /\ (cls \o <<"s">>) \in DOMAIN ship_data.d
           => ship_data.d[cls \o <<"s">>].t = "dict"

\* the catalog holds an entry under the lower-case keys (cls + "s", nm)
Stored(cls, nm) ==
    /\ ship_data.t = "dict"
    /\ (cls \o <<"s">>) \in DOMAIN ship_data.d
    /\ ship_data.d[cls \o <<"s">>].t = "dict"
    /\ nm \in DOMAIN ship_data.d[cls \o <<"s">>].d

StoredEntry(cls, nm) == ship_data.d[cls \o <<"s">>].d[nm]

IsResolve == call.op = "get_ship_params"

IsTof == call.op = "calculate_time_of_flight"

IsLead == call.op = "calculate_lead_distance"

IsAim == call.op = "calculate_aim_point"

\* the observation a lead or aim-point call was given
ObsOf == IF IsLead THEN call.args[1] ELSE call.args[2]

ObsClass == ClassOf(Get(ObsOf, k_ship_type, PStr(s_cruiser)))

ObsName == NameOf(Get(ObsOf, k_ship_name, PStr(s_unknown)))

\* |x - y| <= tol * |y|
Close(x, y, tol) == FLe(FAbs(FSub(x, y)), FMul(FAbs(y), tol))

\* C1 (as claimed): every get_ship_params call, whatever the data file
\* held, returns a ballistic-parameter record and raises nothing.
C1_ResolveTotal == IsResolve => ret.ok /\ ret.val.t = "dict"

\* C2: a query with no entry in the catalog gets exactly the fallback
\* record of its class: destroyer (35.0, 2.0, 800), cruiser (32.0, 1.8, 850),
\* battleship (28.0, 1.3, 800), any other class (30.0, 1.5, 800).
C2_FallbackByClass ==
    (/\ IsResolve
     /\ CatalogShaped(ClassOf(call.args[1]))
     /\ ~Stored(ClassOf(call.args[1]), NameOf(call.args[2])))
        => ret = Ok(Fallback(ClassOf(call.args[1])))

C2_Witness ==
    /\ IsResolve
    /\ call.args = <<PStr(s_submarine), PStr(s_zao)>>
    /\ Stored(s_cruiser, s_zao)
    /\ ret = Ok(Params(FInt(30), F(15, -1), FInt(800)))

\* two strings that differ only in letter case
SameLetters(a, b) == Lower(a) = Lower(b)

SameQuery(p, q) ==
    IF p.t = "str" /\ q.t = "str" THEN SameLetters(p.s, q.s) ELSE p = q

\* C3 (as claimed): an entry stored under keys that match the query up to
\* letter case, whatever the casing of the stored keys, is the record
\* returned.
C3_CaseInsensitiveStored ==
    (IsResolve /\ ship_data.t = "dict" /\ call.args[1].t = "str"
     /\ call.args[2].t = "str")
        => \A K \in DOMAIN ship_data.d :
               (ship_data.d[K].t = "dict"
                /\ SameLetters(K, call.args[1].s \o <<"s">>))
                   => \A N \in DOMAIN ship_data.d[K].d :
                          (SameLetters(N, call.args[2].s)
                           /\ ship_data.d[K].d[N].t = "dict"
                           /\ Truthy(ship_data.d[K].d[N]))
                              => ret = Ok(ship_data.d[K].d[N])

\* C3 (amended): the lookup is case-insensitive on the query only. Two
\* queries that differ only in letter case get the same outcome, and a
\* returned record that is not the fallback of the class is the entry
\* stored under the lower-case keys.
C3_CaseInsensitiveQuery ==
    IsResolve =>
        /\ \A ty \in ShipTypeArgs, nm \in ShipNameArgs :
               (SameQuery(ty, call.args[1]) /\ SameQuery(nm, call.args[2]))
                   => get_ship_params(ship_data, ty, nm) = ret
        /\ (ret.ok /\ ret.val # Fallback(ClassOf(call.args[1])))
               => /\ Stored(ClassOf(call.args[1]), NameOf(call.args[2]))
                  /\ ret.val = StoredEntry(ClassOf(call.args[1]),
                                           NameOf(call.args[2]))

C3_Witness ==
    /\ IsResolve
    /\ call.args = <<PStr(s_CRUISER), PStr(s_Zao)>>
    /\ Stored(s_cruiser, s_zao)
    /\ ret = Ok(Rec(Fields, PNum(FInt(920))))

\* a stored record: a mapping carrying some subset of the three fields
StoredRecord ==
    /\ Stored(ObsClass, ObsName)
    /\ StoredEntry(ObsClass, ObsName).t = "dict"

\* the observation has a distance > 0 and a numeric speed
ValidObs ==
    /\ Get(ObsOf, k_distance, PNum(FInt(10))).t = "num"
    /\ Get(ObsOf, k_distance, PNum(FInt(10))).v.m > 0
    /\ Get(ObsOf, k_speed, PNum(FZero)).t = "num"

\* the stored shell velocity when the record has one, else 800 m/s
VelocityOrDefault(rec) == Get(rec, k_shell_velocity, PNum(FInt(800)))

\* C4 (as claimed): for an entry found in the catalog, whatever subset of
\* the three fields it carries, the lead computation uses the record's
\* shell velocity when present and 800 m/s when absent, and a record
\* lacking fields raises nothing.
C4_VelocityAnySubset ==
    ((IsLead \/ IsAim) /\ StoredRecord)
        => /\ lead_velocity = VelocityOrDefault(StoredEntry(ObsClass, ObsName))
           /\ (k_shell_velocity \notin DOMAIN StoredEntry(ObsClass, ObsName).d
               /\ ValidObs) => ret.ok

\* C4 (amended): the same for every stored record that carries at least
\* one field; a stored record with no field counts as not found and the
\* velocity used is that of the class fallback (850 m/s for a cruiser).
C4_VelocityNonEmptyRecord ==
    ((IsLead \/ IsAim) /\ StoredRecord)
        => /\ lead_velocity =
                 IF DOMAIN StoredEntry(ObsClass, ObsName).d # {}
                 THEN VelocityOrDefault(StoredEntry(ObsClass, ObsName))
                 ELSE Fallback(ObsClass).d[k_shell_velocity]
           /\ (k_shell_velocity \notin DOMAIN StoredEntry(ObsClass, ObsName).d
               /\ ValidObs) => ret.ok

C4_Witness ==
    /\ IsLead
    /\ StoredRecord
    /\ DOMAIN StoredEntry(ObsClass, ObsName).d = {k_max_speed}
    /\ ValidObs
    /\ lead_velocity = PNum(FInt(800))
    /\ ret.ok

\* C5 (as claimed): the shell velocity of every record get_ship_params
\* returns, and the velocity a lead computation passes to the time of
\* flight, is a number > 0.
C5_PositiveVelocity ==
    /\ (IsResolve /\ ret.ok /\ ret.val.t = "dict"
        /\ k_shell_velocity \in DOMAIN ret.val.d)
           => /\ ret.val.d[k_shell_velocity].t = "num"
              /\ ret.val.d[k_shell_velocity].v.m > 0
    /\ ((IsLead \/ IsAim) /\ lead_velocity # PNone)
           => lead_velocity.t = "num" /\ lead_velocity.v.m > 0

\* C6: construction never raises; when the data file is missing,
\* unreadable or unparsable the catalog is empty and every get_ship_params
\* call returns the fallback record of its class.
C6_LoadFailureAbsorbed ==
    /\ pc # "raised"
    /\ (data_file.st # "json" /\ pc = "ready")
           => /\ ship_data = EmptyDict
              /\ IsResolve => ret = Ok(Fallback(ClassOf(call.args[1])))

C6_Witness ==
    /\ data_file.st = "malformed"
    /\ pc = "ready"
    /\ IsResolve
    /\ call.args = <<PStr(s_Destroyer), PStr(s_kidd)>>
    /\ ret = Ok(Params(FInt(35), FInt(2), FInt(800)))

\* (10*k*u + 490*k^2) / u^2: the value of d/v + (g*d^2)/(2*v^2) for
\* d = 500*k metres, v = 50*u m/s and g = 9.8, in whole numbers
TofExact(k, u) == FDiv(FInt(10 * k * u + 490 * k * k), FInt(u * u))

\* C7: for distanceKm >= 0 and shellVelocity > 0 the time of flight is
\* d/v + (g*d^2)/(2*v^2) with d = 1000 * distanceKm and g = 9.8 (to two
\* units in the sixth significant digit), and it is 0 at distance 0.
C7_TimeOfFlightFormula ==
    (IsTof /\ call.args[2].t = "num" /\ call.args[2].v.m > 0)
        => /\ ret.ok
           /\ Close(ret.val,
                    TofExact(Trunc(FMul(call.args[1].v, FInt(2))),
                             Trunc(call.args[2].v) \div 50),
                    F(2, -5))
           /\ call.args[1].v.m = 0 => ret.val = FZero

C7_Witness ==
    /\ IsTof
    /\ call.args = <<PNum(F(85, -1)), PNum(FInt(800))>>
    /\ ret = Ok(F(563789, -3))

\* the observation of the sample: 8.5 km, 25 knots, 45 degrees, a destroyer
\* that is not in the catalog
SampleObs ==
    Observation(PNum(F(85, -1)), PNum(FInt(25)), PNum(FInt(45)),
                PStr(s_destroyer), PStr(s_zao))

IsSampleTof == IsTof /\ call.args = <<PNum(F(85, -1)), PNum(FInt(800))>>

IsSampleLead ==
    IsLead /\ call.args = <<SampleObs>> /\ lead_velocity = PNum(FInt(800))

\* C8 (as claimed): for the sample the time of flight is about 11.18 s, the
\* lead about 101.6 m, that is about 11.95 pixels, and the offsets are about
\* 8.45 and -8.45.
C8_SampleAsClaimed ==
    /\ IsSampleTof => ret.ok /\ Close(ret.val, F(1118, -2), F(1, -2))
    /\ IsSampleLead
           => /\ ret.ok
              /\ Close(FMul(ret.val.lead_distance_pixels, F(85, -1)),
                       F(1016, -1), F(1, -2))
              /\ Close(ret.val.lead_distance_pixels, F(1195, -2), F(1, -2))
              /\ Close(ret.val.offset_x, F(845, -2), F(1, -2))
              /\ Close(ret.val.offset_y, F(-845, -2), F(1, -2))

\* C8 (amended): for the sample the time of flight is about 563.79 s
\* (10.625 + 553.164), the lead about 5126.8 m, that is about 603.15
\* pixels, and the offsets are about 426.49 and -426.49.
C8_SampleAsComputed ==
    /\ IsSampleTof => ret.ok /\ Close(ret.val, F(56379, -2), F(1, -4))
    /\ IsSampleLead
           => /\ ret.ok
              /\ Close(FMul(ret.val.lead_distance_pixels, F(85, -1)),
                       F(51268, -1), F(1, -4))
              /\ Close(ret.val.lead_distance_pixels, F(60315, -2), F(1, -4))
              /\ Close(ret.val.offset_x, F(42649, -2), F(1, -4))
              /\ Close(ret.val.offset_y, F(-42649, -2), F(1, -4))

C8_Witness == IsSampleLead /\ ret.ok /\ ship_data = EmptyDict

\* the lead a lead or aim-point call computes for its observation
LeadOf ==
    calculate_lead_distance(ship_data, gravity, default_shell_velocity, ObsOf)

\* the component of a returned aim point, of a lead's offsets, on axis i
AimAt(i) == IF i = 1 THEN ret.val.aim_x ELSE ret.val.aim_y

OffsetAt(lead, i) == IF i = 1 THEN lead.val.offset_x ELSE lead.val.offset_y

Saturate(u, size) == IF u < 0 THEN 0 ELSE IF u > size THEN size ELSE u

\* C9: whenever the lead offsets exist, calculate_aim_point returns, for each
\* axis, the target centre plus the integer offset when that lies in
\* [0, size], 0 when it is below and size when it is above: the point is in
\* [0, width] x [0, height] and nothing is raised.
C9_AimPointSaturates ==
    (IsAim /\ LeadOf.ok)
        => /\ ret.ok
           /\ \A i \in 1..2 :
                  /\ AimAt(i) =
                         Saturate(call.args[1][i] + to_pixels(OffsetAt(LeadOf, i)),
                                  call.args[3][i])
                  /\ AimAt(i) >= 0
                  /\ AimAt(i) <= call.args[3][i]

C9_Witness ==
    /\ IsAim
    /\ call.args[1] = <<1900, 10>>
    /\ call.args[3] = <<1920, 1080>>
    /\ LeadOf.ok
    /\ Trunc(LeadOf.val.offset_x) = 426
    /\ Trunc(LeadOf.val.offset_y) = -426
    /\ ret = Ok([aim_x |-> 1920, aim_y |-> 0])

\* x rounded to the nearest integer (halves away from zero)
RoundNearest(x) ==
    IF x.m >= 0 THEN Trunc(FAdd(x, F(5, -1)))
    ELSE -Trunc(FAdd(FNeg(x), F(5, -1)))

\* C10 (as claimed): the aim point is the target centre plus the offset
\* rounded to the nearest integer, clamped to the screen.
C10_RoundedOffset ==
    (IsAim /\ LeadOf.ok)
        => /\ ret.ok
           /\ \A i \in 1..2 :
                  AimAt(i) =
                      Saturate(call.args[1][i] + RoundNearest(OffsetAt(LeadOf, i)),
                               call.args[3][i])

\* n is x with its fractional part dropped: |n| <= |x| < |n| + 1, and n has
\* the sign of x unless it is 0
IsTruncOf(n, x) ==
    /\ FLe(FInt(Abs(n)), FAbs(x))
    /\ FLt(FAbs(x), FInt(Abs(n) + 1))
    /\ n # 0 => Sgn(n) = Sgn(x.m)

\* x with its fractional part dropped is <= k, >= k
TruncLe(x, k) == IF k >= 0 THEN FLt(x, FInt(k + 1)) ELSE FLe(x, FInt(k))

TruncGe(x, k) == IF k <= 0 THEN FLt(FInt(k - 1), x) ELSE FLe(FInt(k), x)

\* C10 (amended): the aim point is the target centre plus the offset
\* truncated toward zero (its fractional part dropped, whatever its sign),
\* clamped to the screen.
C10_TruncatedOffset ==
    (IsAim /\ LeadOf.ok)
        => /\ ret.ok
           /\ \A i \in 1..2 :
                  \/ /\ 0 < AimAt(i)
                     /\ AimAt(i) < call.args[3][i]
                     /\ IsTruncOf(AimAt(i) - call.args[1][i], OffsetAt(LeadOf, i))
                  \/ /\ AimAt(i) = 0
                     /\ TruncLe(OffsetAt(LeadOf, i), -call.args[1][i])
                  \/ /\ AimAt(i) = call.args[3][i]
                     /\ TruncGe(OffsetAt(LeadOf, i),
                                call.args[3][i] - call.args[1][i])

\* a positive offset of 852.98 and a negative one of -426.49
C10_Witness ==
    /\ IsAim
    /\ LeadOf.ok
    /\ call.args[1] = <<960, 540>>
    /\ call.args[3] = <<1920, 1080>>
    /\ \/ /\ Close(LeadOf.val.offset_x, F(85298, -2), F(1, -5))
          /\ ret.val.aim_x = 960 + 852
       \/ /\ Close(LeadOf.val.offset_y, F(-42649, -2), F(1, -5))
          /\ ret.val.aim_y = 540 - 426

(***************************************************************************)
(* Bearings, shell drop and zero inputs                                    *)
(***************************************************************************)
IsDrop == call.op = "calculate_shell_drop"

\* the bearing of the observation, in whole degrees
ObsAngle == Trunc(Get(ObsOf, k_angle, PNum(FInt(90))).v)

\* the observation has a numeric speed and distance, and the lookup gave a
\* numeric shell velocity
NumericObs ==
    /\ Get(ObsOf, k_distance, PNum(FInt(10))).t = "num"
    /\ Get(ObsOf, k_speed, PNum(FZero)).t = "num"
    /\ lead_velocity.t = "num"

\* C12: for every numeric speed, every distance > 0 and every shell
\* velocity other than 0, calculate_lead_distance at bearing 0 or 180
\* degrees returns a lead and offsets that are 0 up to 1e-9 pixels
\* (exactly 0 at bearing 0).
C12_NoLeadAlongLineOfFire ==
    (IsLead /\ ValidObs /\ NumericObs /\ lead_velocity.v.m # 0
     /\ ObsAngle \in {0, 180})
        => /\ ret.ok
           /\ FLe(FAbs(ret.val.lead_distance_pixels), F(1, -9))
           /\ FLe(FAbs(ret.val.offset_x), F(1, -9))
           /\ FLe(FAbs(ret.val.offset_y), F(1, -9))
           /\ ObsAngle = 0 => ret.val.lead_distance_pixels = FZero

\* bearing 180 at 25 knots: the lead is tiny but not 0
C12_Witness ==
    /\ IsLead
    /\ ObsAngle = 180
    /\ Get(ObsOf, k_speed, PNum(FZero)) = PNum(FInt(25))
    /\ Get(ObsOf, k_distance, PNum(FInt(10))) = PNum(F(85, -1))
    /\ ret.ok
    /\ ret.val.lead_distance_pixels.m > 0
    /\ FLe(ret.val.lead_distance_pixels, F(1, -9))

\* the lead of the same observation at bearing 90 degrees
LeadAbeam ==
    calculate_lead_distance(ship_data, gravity, default_shell_velocity,
                            PDict((k_angle :> PNum(FInt(90))) @@ ObsOf.d))

\* C13: for a fixed numeric speed >= 0, distance > 0 and shell velocity
\* > 0, the lead in pixels and the x offset returned at any bearing are at
\* most those returned at bearing 90 degrees.
C13_AbeamIsLargest ==
    (IsLead /\ ValidObs /\ NumericObs /\ lead_velocity.v.m > 0)
        => /\ ret.ok
           /\ LeadAbeam.ok
           /\ FLe(ret.val.lead_distance_pixels,
                  LeadAbeam.val.lead_distance_pixels)
           /\ FLe(ret.val.offset_x, LeadAbeam.val.offset_x)

\* bearing 45 at 25 knots gives strictly less than bearing 90
C13_Witness ==
    /\ IsLead
    /\ ObsAngle = 45
    /\ Get(ObsOf, k_speed, PNum(FZero)) = PNum(FInt(25))
    /\ ValidObs
    /\ ret.ok
    /\ LeadAbeam.ok
    /\ ret.val.offset_x.m > 0
    /\ FLt(ret.val.offset_x, LeadAbeam.val.offset_x)
    /\ FLt(ret.val.lead_distance_pixels, LeadAbeam.val.lead_distance_pixels)

\* the time of flight of a time-of-flight or shell-drop call
TofOf == calculate_time_of_flight(gravity, call.args[1], call.args[2])

\* C14: for distance_km > 0 and shell_velocity > 0, calculate_shell_drop
\* returns (0.5 * g * tof^2 / 100) * 10 * (10 / distance_km), which is
\* 4.9 * tof^2 / distance_km (to five units in the sixth significant
\* digit).
C14_DropScalesInversely ==
    (IsDrop /\ call.args[1].t = "num" /\ call.args[1].v.m > 0
     /\ call.args[2].t = "num" /\ call.args[2].v.m > 0)
        => /\ ret.ok
           /\ TofOf.ok
           /\ Close(ret.val,
                    FDiv(FMul(F(49, -1), FMul(TofOf.val, TofOf.val)),
                         call.args[1].v),
                    F(5, -5))

\* 5 km at 800 m/s: the scale is doubled
C14_Witness ==
    /\ IsDrop
    /\ call.args = <<PNum(FInt(5)), PNum(FInt(800))>>
    /\ ret.ok
    /\ FLt(FInt(0), ret.val)

\* C15: calculate_lead_distance and calculate_shell_drop with a distance of
\* 0, and calculate_time_of_flight with a shell velocity of 0, raise
\* ZeroDivisionError and return nothing.
C15_ZeroInputsRaise ==
    /\ (IsLead /\ NumericObs /\ Get(ObsOf, k_distance, PNum(FInt(10))).v.m = 0)
           => ret = Raise("ZeroDivisionError")
    /\ (IsDrop /\ call.args[1].t = "num" /\ call.args[1].v.m = 0
        /\ call.args[2].t = "num")
           => ret = Raise("ZeroDivisionError")
    /\ (IsTof /\ call.args[1].t = "num" /\ call.args[2].t = "num"
        /\ call.args[2].v.m = 0)
           => ret = Raise("ZeroDivisionError")

C15_Witness ==
    /\ IsLead
    /\ Get(ObsOf, k_distance, PNum(FInt(10))) = PNum(FZero)
    /\ Get(ObsOf, k_speed, PNum(FZero)) = PNum(FInt(25))
    /\ lead_velocity = PNum(FInt(800))
    /\ ret = Raise("ZeroDivisionError")

(***************************************************************************)
(* The frame loop: aim points, target state, parameters, the pointer       *)
(***************************************************************************)

\* a point within [0, width] x [0, height] of the display d
OnDisplay(p, d) ==
    /\ 0 <= p.x /\ p.x <= d.width
    /\ 0 <= p.y /\ p.y <= d.height

\* C11: every aim point a frame stores and hands to the overlay lies within
\* [0, width] x [0, height] of the active display, whatever its resolution.
C11_AimPointOnDisplay ==
    /\ aimbot.aim_point # PNone => OnDisplay(aimbot.aim_point, display)
    /\ overlay.aim_point # PNone => OnDisplay(overlay.aim_point, display)

\* among ships in screen coordinates, the one closest to the screen centre,
\* the first of the list among equally close ones
NearestIndex(ships, d) ==
    CHOOSE k \in DOMAIN ships :
        \A j \in DOMAIN ships :
            \/ distance2(ship_center(ships[k]), center_of(d.width), center_of(d.height))
                 < distance2(ship_center(ships[j]), center_of(d.width), center_of(d.height))
            \/ /\ distance2(ship_center(ships[k]), center_of(d.width), center_of(d.height))
                    = distance2(ship_center(ships[j]), center_of(d.width), center_of(d.height))
               /\ k <= j

\* the target a frame's detections and text determine
FrameCenter(f, d) ==
    ship_center(adjusted_ships(f.ships, d)[NearestIndex(adjusted_ships(f.ships, d), d)])

FrameData(f, d) == with_angle(extract_target_info(f.text), FrameCenter(f, d), d)

FrameAim(f, d) ==
    frame_aim_point(ship_data, gravity, default_shell_velocity,
                    FrameCenter(f, d), FrameData(f, d))

\* process_frame has returned and the loop is in its sleep
FrameCompleted == main.at = "sleep"

\* C17: after a completed process_frame the target data, target centre and
\* aim point are those of that frame's detections and text alone: a frame
\* without detections leaves all three None and the overlay's target data,
\* aim point and lead line empty; a frame with detections overwrites all
\* three.
C17_TargetStateFromFrame ==
    FrameCompleted =>
        IF frame_in.ships = <<>>
        THEN /\ aimbot.target_data = PNone
             /\ aimbot.target_center = PNone
             /\ aimbot.aim_point = PNone
             /\ overlay.target_data = PNone
             /\ overlay.aim_point = PNone
             /\ overlay.lead_line.start = PNone
             /\ overlay.lead_line.end = PNone
        ELSE /\ aimbot.target_center = FrameCenter(frame_in, display)
             /\ aimbot.target_data = FrameData(frame_in, display)
             /\ FrameAim(frame_in, display).ok
             /\ aimbot.aim_point = AsPoint(FrameAim(frame_in, display).val)

\* a frame without detections completed after an earlier frame had a target
\* and moved the pointer to its aim point
C17_Witness ==
    /\ FrameCompleted
    /\ frame_in.ships = <<>>
    /\ last_move.made
    /\ aimbot.aim_point = PNone
    /\ overlay.lead_line.start = PNone

\* what extract_target_info put under "ship_info" for the frame's text
OcrShipInfo(f) == Get(extract_target_info(f.text), k_ship_info, EmptyDict)

\* the shell velocity of the record resolved for the type and name of the
\* text, cruiser / unknown standing in for a missing type or name
OcrVelocity(f) ==
    velocity_of(velocity_from(
        get_ship_params(ship_data,
                        Get(OcrShipInfo(f), k_type, PStr(s_cruiser)),
                        Get(OcrShipInfo(f), k_name, PStr(s_unknown))),
        default_shell_velocity))

\* C18: the aim point of a frame is computed with the ballistic parameters
\* resolved for the ship type and name read from the target-info area, and
\* with those of cruiser / unknown only when none was read.
C18_ParamsOfOcrShip ==
    FrameCompleted /\ frame_in.ships # <<>> =>
        lead_velocity = OcrVelocity(frame_in)

\* C19: when a ship is detected and the text holds no distance or no speed,
\* process_frame completes with an aim point computed from the defaults
\* 10 km and 0 knots, no exception ends the frame, and the loop goes on.
C19_MissingReadingsDefaulted ==
    /\ frame_in.ships # <<>>
    /\ frame_in.text.km = PNone \/ frame_in.text.kn = PNone
    => /\ main.at # "raised"
       /\ main.exc = ""
       /\ aimbot.aim_point # PNone

\* C20: each SetCursorPos of move_mouse_to_aim_point is made while auto_aim
\* is true and an aim point is set, whatever the F9 callback does meanwhile.
C20_MovesOnlyWhileAutoAim ==
    last_move.made => last_move.auto_aim /\ last_move.aimed

(***************************************************************************)
(* Concurrent callers                                                      *)
(***************************************************************************)

\* what a call returns when it runs alone on the calculator as constructed
AloneResult(c) ==
    CASE c.op = "get_ship_params" ->
            get_ship_params(load_ship_data(data_file).val, c.args[1], c.args[2])
      [] c.op = "calculate_time_of_flight" ->
            calculate_time_of_flight(F(98, -1), c.args[1], c.args[2])
      [] c.op = "calculate_lead_distance" ->
            calculate_lead_distance(load_ship_data(data_file).val, F(98, -1),
                                    FInt(800), c.args[1])
      [] c.op = "calculate_aim_point" ->
            calculate_aim_point(load_ship_data(data_file).val, F(98, -1),
                                FInt(800), c.args[1], c.args[2], c.args[3])
      [] c.op = "calculate_shell_drop" ->
            calculate_shell_drop(F(98, -1), c.args[1], c.args[2])

\* C16: after construction, however the steps of concurrent calls interleave,
\* the catalog, the gravity and the default shell velocity are those of the
\* construction, and every finished call holds the result it returns when
\* run alone with the same arguments.
C16_CallersDoNotInterfere ==
    pc = "ready" =>
        /\ ship_data = load_ship_data(data_file).val
        /\ gravity = F(98, -1)
        /\ default_shell_velocity = FInt(800)
        /\ \A c \in Callers :
              callers[c].at = "done" => callers[c].ret = AloneResult(callers[c])

\* one caller has finished an aim point whose lookup fell back to the class
\* defaults while another is between the two reads of a shell-drop call
C16_Witness ==
    /\ callers[1].at = "done"
    /\ callers[1].op = "calculate_aim_point"
    /\ callers[1].ret.ok
    /\ callers[2].at = "drop"
    /\ callers[2].op = "calculate_shell_drop"

(***************************************************************************)
(* Target selection, leaving the loop, the sign of the lateral offset      *)
(***************************************************************************)

\* the squared distance to the screen centre of the k-th detection of the
\* frame, its box shifted by the capture offset
ShipDistance2(k) ==
    distance2(ship_center(adjusted_ships(frame_in.ships, display)[k]),
              center_of(display.width), center_of(display.height))

\* C21: for a non-empty list of detections the target centre is the box centre
\* (shifted by the capture offset) of a ship that no ship is closer to the
\* screen centre than, and that every earlier ship of the list is strictly
\* farther than.
C21_ClosestShipFirstOnTie ==
    frame_in.ships # <<>> =>
        \E k \in DOMAIN frame_in.ships :
            /\ aimbot.target_center =
                 ship_center(adjusted_ships(frame_in.ships, display)[k])
            /\ \A j \in DOMAIN frame_in.ships : ShipDistance2(k) <= ShipDistance2(j)
            /\ \A j \in 1..(k - 1) : ShipDistance2(j) > ShipDistance2(k)

\* two ships equally close to the screen centre with different centres: the
\* first one is the target
C21_Witness ==
    /\ Len(frame_in.ships) = 2
    /\ ShipDistance2(1) = ShipDistance2(2)
    /\ ship_center(frame_in.ships[1]) # ship_center(frame_in.ships[2])
    /\ aimbot.target_center =
         ship_center(adjusted_ships(frame_in.ships, display)[1])

\* the main thread is inside run()
InLoop ==
    main.at \in {"loop", "moving", "frame_end", "sleep", "leaving", "raised"}

LeadOfMovingTarget ==
    /\ IsLead /\ ValidObs /\ NumericObs
    /\ Get(ObsOf, k_speed, PNum(FZero)).v.m >= 0
    /\ lead_velocity.v.m > 0

\* C23: for every bearing, negative ones and ones above 180 degrees
\* included, speed >= 0, distance > 0 and shell velocity > 0, the x offset
\* calculate_lead_distance returns is >= 0, and so is the whole number of
\* pixels calculate_aim_point adds to the target centre's x.
C23_OffsetXNonNegative ==
    LeadOfMovingTarget =>
        /\ ret.ok
        /\ ret.val.offset_x.m >= 0
        /\ to_pixels(ret.val.offset_x) >= 0

\* a target at bearing -90 or 270 degrees: the signed lead is negative and
\* the x offset positive
C23_Witness ==
    /\ LeadOfMovingTarget
    /\ ObsAngle \in {-90, 270}
    /\ ret.ok
    /\ ret.val.lead_distance_pixels.m < 0
    /\ ret.val.offset_x.m > 0

====
